---- MODULE Spec2Model ----
(***************************************************************************)
(* A model of Fetcher (src/index.ts): one client, its three interceptor    *)
(* lists, and the life cycle of one execute call (the state of a call is   *)
(* local to it; the only state calls share is the interceptor lists, which *)
(* execute reads and never writes).                                        *)
(*                                                                         *)
(* Strings the code takes apart (URLs, query strings) are sequences of     *)
(* one-character strings.  A nullable value is <<>> (null / undefined) or  *)
(* <<v>>.  Values a promise settles with are records with a "kind".        *)
(***************************************************************************)
EXTENDS Integers, Sequences, FiniteSets, TLC

VARIABLES
    \* ---- the client (constructor, add-* methods)
    baseUrl,               \* this.baseUrl: <<>> (null) or <<string>>
    clientTimeout,         \* this.timeout
    paramsSerializer,      \* this.paramsSerializer: the name of a serializer
    requestInterceptors,   \* this.requestInterceptors
    responseInterceptors,  \* this.responseInterceptors
    errorInterceptors,     \* this.errorInterceptors
    \* ---- one execute call
    phase,                 \* "none": not called; "threw": execute threw; "active": a handle was returned
    args,                  \* the arguments of the call
    thrown,                \* what execute threw synchronously
    reqLog,                \* request interceptors invoked: <<[h, arg, ret]>>
    reqCount,              \* how many request interceptors were registered at call time
    listsAtCall,           \* how many response and error interceptors were, at call time
    timeout,               \* the effective timeout of the call
    timeoutTimeout,        \* the timeout timer: "none" | "armed" | "fired" | "cleared"
    aborted,               \* abortController.signal.aborted
    abortCalls,            \* calls of abortController.abort()
    timerAborts,           \* calls of abort() made by the timer callback
    onCancelList,          \* the cancel callbacks the handle still holds
    isCanceled,            \* the handle was cancelled
    cancelAt,              \* the handle's state when it was first cancelled ("never" before)
    handleState,           \* "none" | "pending" | "resolved" | "rejected"
    handleValue,           \* what the handle settled with
    transport,             \* the fetch call: "none" | "inflight" | "responded" | "failed"
    transportCalls,        \* calls of fetch
    transportArgs,         \* what fetch was called with
    fetchResponse,         \* what fetch resolved with
    decoder,               \* the body reader chosen: "none" | "json" | "text" | ...
    decode,                \* dataPromise: "none" | "pending" | "done" | "failed"
    decoded,               \* what dataPromise resolved with
    fault,                 \* what fetch or dataPromise rejected with
    chainCount,            \* how many interceptors the classified branch's list held
    respLog,               \* response interceptors invoked: <<[h, arg]>>
    errLog                 \* error interceptors invoked: <<[h, arg]>>

clientVars == <<baseUrl, clientTimeout, paramsSerializer>>
listVars == <<requestInterceptors, responseInterceptors, errorInterceptors>>
entryVars == <<phase, args, thrown, reqLog, reqCount, listsAtCall, timeout>>
abortVars == <<aborted, abortCalls, timerAborts>>
cancelVars == <<onCancelList, isCanceled, cancelAt>>
handleVars == <<handleState, handleValue>>
fetchVars == <<transport, transportCalls, transportArgs>>
bodyVars == <<fetchResponse, decoder, decode, decoded, fault>>
chainVars == <<chainCount, respLog, errLog>>
vars == <<clientVars, listVars, entryVars, timeoutTimeout, abortVars, cancelVars,
          handleVars, fetchVars, bodyVars, chainVars>>

\* ------------------------------------------------------------------ bounds

\* add-* calls in one behaviour
MaxAdds == 2
\* length of the base URLs and paths the URL composition is tried on
MaxUrlLen == 3

\* ------------------------------------------------------------------ values

Null == <<>>
Some(v) == <<v>>

\* Fetcher.defaultOptions.timeout
DefaultTimeout == 30000

StrValue(s) == [kind |-> "string", v |-> s]
NoValue == [kind |-> "none"]
\* An Error object a collaborator rejects with
FaultValue(name) == [kind |-> "fault", v |-> name]
UndefinedRequest == [kind |-> "undefined"]

\* The handlers a caller may register.  A request interceptor maps a request
\* to a request: "tagA" appends the header (tag, a) and returns the request,
\* "tagB" returns a new request with the header (tag, b) appended and its own
\* body, "undef" returns undefined, "throws" throws.
RequestHandlers == {"tagA", "tagB", "undef", "throws"}
\* A response or error interceptor: "observe" returns nothing, "replace"
\* returns another value, "throws" throws.
ResponseHandlers == {"observe", "replace", "throws"}
ErrorHandlers == {"observe", "replace", "throws"}

\* ------------------------------------------------- pure steps of execute

\* url.replace(/^\//, ""): the regular expression has no g flag and is
\* anchored, so at most one leading slash goes.
StripLeadingSlash(s) ==
    IF Len(s) > 0 /\ s[1] = "/" THEN SubSeq(s, 2, Len(s)) ELSE s

\* baseUrl.replace(/\/$/, ""): at most one trailing slash goes.
StripTrailingSlash(s) ==
    IF Len(s) > 0 /\ s[Len(s)] = "/" THEN SubSeq(s, 1, Len(s) - 1) ELSE s

\* The join with the path's leading slash kept.
JoinUrlKeepingLeadingSlash(base, path) ==
    LET b == IF base = Null THEN <<>> ELSE base[1]
    IN  StripTrailingSlash(b) \o <<"/">> \o path

\* const baseUrl = this.baseUrl ?? ""
\* url = baseUrl.replace(/\/$/, "") + "/" + url.replace(/^\//, "")
JoinUrl(base, path) ==
    LET b == IF base = Null THEN <<>> ELSE base[1]
    IN  StripTrailingSlash(b) \o <<"/">> \o StripLeadingSlash(path)

\* qs.stringify(p, {arrayFormat: 'repeat', skipNulls: true,
\* strictNullHandling: true}) on a flat mapping, given as a sequence of
\* [key, kind, v]: kind "str" (v a string), "null", or "array" (v a
\* sequence of strings).  A null value is skipped, an array repeats its key.
RECURSIVE QsPairs(_, _)
QsPairs(key, values) ==
    IF values = <<>> THEN <<>>
    ELSE << key \o <<"=">> \o Head(values) >> \o QsPairs(key, Tail(values))

RECURSIVE QsAllPairs(_)
QsAllPairs(params) ==
    IF params = <<>> THEN <<>>
    ELSE LET p == Head(params)
             here == CASE p.kind = "null" -> <<>>
                       [] p.kind = "str" -> QsPairs(p.key, <<p.v>>)
                       [] p.kind = "array" -> QsPairs(p.key, p.v)
         IN  here \o QsAllPairs(Tail(params))

RECURSIVE JoinAmp(_)
JoinAmp(pairs) ==
    IF pairs = <<>> THEN <<>>
    ELSE IF Len(pairs) = 1 THEN Head(pairs)
    ELSE Head(pairs) \o <<"&">> \o JoinAmp(Tail(pairs))

QsStringify(params) == JoinAmp(QsAllPairs(params))

\* this.paramsSerializer: the default one, or one the caller configured
\* ("fixed" stands for a caller's serializer that ignores its argument).
Serialize(name, params) ==
    IF name = "qs" THEN QsStringify(params) ELSE <<"q">>

\* The "?" appended whatever the serializer returned.
AppendQueryAlways(url, paramString) == url \o <<"?">> \o paramString

\* url = paramString ? url + "?" + paramString : url
AppendQuery(url, paramString) ==
    IF paramString # <<>> THEN url \o <<"?">> \o paramString ELSE url

\* for (let headerKey in headersObject) visits the object's own enumerable
\* string keys in the order of OrdinaryOwnPropertyKeys: the integer indices
\* (canonical numeric strings: digits only, no leading zero but "0" itself)
\* in ascending numeric order first, then the other keys in the order the
\* properties were created.  A key is a sequence of characters; the object is
\* the sequence of its entries in creation order.
DigitValue(c) ==
    CASE c = "0" -> 0 [] c = "1" -> 1 [] c = "2" -> 2 [] c = "3" -> 3
      [] c = "4" -> 4 [] c = "5" -> 5 [] c = "6" -> 6 [] c = "7" -> 7
      [] c = "8" -> 8 [] c = "9" -> 9

IsDigit(c) == c \in {"0", "1", "2", "3", "4", "5", "6", "7", "8", "9"}

IsIntegerIndex(key) ==
    /\ Len(key) > 0
    /\ \A i \in 1..Len(key) : IsDigit(key[i])
    /\ Len(key) > 1 => key[1] # "0"

RECURSIVE IndexValue(_)
IndexValue(key) ==
    IF key = <<>> THEN 0
    ELSE 10 * IndexValue(SubSeq(key, 1, Len(key) - 1)) + DigitValue(key[Len(key)])

RECURSIVE AscendingIndices(_)
AscendingIndices(entries) ==
    IF entries = <<>> THEN <<>>
    ELSE LET m == CHOOSE i \in 1..Len(entries) :
                      \A j \in 1..Len(entries) :
                          IndexValue(entries[i].key) <= IndexValue(entries[j].key)
         IN  <<entries[m]>> \o
             AscendingIndices(SubSeq(entries, 1, m - 1) \o
                              SubSeq(entries, m + 1, Len(entries)))

HasIndexKey(e) == IsIntegerIndex(e.key)
HasNamedKey(e) == ~IsIntegerIndex(e.key)

\* The entries in the order the for-in loop visits them.
ForIn(headersObject) ==
    AscendingIndices(SelectSeq(headersObject, HasIndexKey))
        \o SelectSeq(headersObject, HasNamedKey)

\* The inner loop appending a sequence's elements last to first.
RECURSIVE AppendEachReversed(_, _)
AppendEachReversed(key, values) ==
    IF values = <<>> THEN <<>>
    ELSE AppendEachReversed(key, Tail(values)) \o << <<key, Head(values)>> >>

\* The body of the header loop over the entries as visited: a string value
\* appends one entry, any other value one entry per element.  An entry is
\* [key, isString, v], v the sequence of the values (of length 1 for a
\* string).
RECURSIVE AppendEach(_, _)
AppendEach(key, values) ==
    IF values = <<>> THEN <<>>
    ELSE << <<key, Head(values)>> >> \o AppendEach(key, Tail(values))

RECURSIVE ExpandHeaders(_)
ExpandHeaders(headersObject) ==
    IF headersObject = <<>> THEN <<>>
    ELSE LET e == Head(headersObject)
             here == IF e.isString THEN << <<e.key, e.v[1]>> >>
                     ELSE AppendEach(e.key, e.v)
         IN  here \o ExpandHeaders(Tail(headersObject))

\* const timeout = options?.timeout ?? this.timeout
EffectiveTimeout(optTimeout, clientT) ==
    IF optTimeout = Null THEN clientT ELSE optTimeout[1]

\* A timer armed only for a positive timeout.
ArmsTimerWhenPositive(t) == t > 0

\* if (timeout >= 0) { timeoutTimeout = setTimeout(...) }
ArmsTimer(t) == t >= 0

\* let request: Request = {url, headers, params, body}
BuildRequest(base, serializer, a) ==
    [kind |-> "request",
     url |-> AppendQuery(JoinUrl(base, a.path), Serialize(serializer, a.params)),
     headers |-> ExpandHeaders(ForIn(IF a.options.headers = Null THEN <<>>
                                      ELSE a.options.headers[1])),
     params |-> a.params,
     body |-> a.body]

\* One request interceptor applied to the current request.
ApplyRequestInterceptor(h, req) ==
    CASE h = "throws" ->
           [threw |-> TRUE, error |-> StrValue("requestInterceptorError"), ret |-> req]
      [] h = "undef" ->
           [threw |-> FALSE, error |-> NoValue, ret |-> UndefinedRequest]
      [] h \in {"tagA", "tagB"} ->
           IF req.kind = "undefined"
           THEN [threw |-> TRUE, error |-> StrValue("TypeError"), ret |-> req]
           ELSE [threw |-> FALSE, error |-> NoValue,
                 ret |-> IF h = "tagA"
                         THEN [req EXCEPT !.headers = Append(@, <<"tag", "a">>)]
                         ELSE [req EXCEPT !.headers = Append(@, <<"tag", "b">>),
                                          !.body = "bodyB"]]

\* The loop calling every interceptor with the first request.
NextRequestNotChained(current, returned) == current

\* request = requestInterceptor(request): the returned request replaces the
\* current one.
NextRequest(current, returned) == returned

\* for (let requestInterceptor of this.requestInterceptors) { ... }
RECURSIVE FoldRequest(_, _, _, _)
FoldRequest(list, i, req, log) ==
    IF i > Len(list)
    THEN [threw |-> FALSE, error |-> NoValue, request |-> req, log |-> log]
    ELSE LET r == ApplyRequestInterceptor(list[i], req)
             entry == [h |-> list[i], arg |-> req, ret |-> r.ret]
         IN  IF r.threw
             THEN [threw |-> TRUE, error |-> r.error, request |-> req,
                   log |-> Append(log, entry)]
             ELSE FoldRequest(list, i + 1, NextRequest(req, r.ret), Append(log, entry))

\* fetch(request.url, {...request, signal: abortController.signal, method})
TransportCall(request, method) ==
    [url |-> request.url, method |-> method, headers |-> request.headers,
     body |-> request.body]

\* String.prototype.includes
RECURSIVE IncludesFrom(_, _, _)
IncludesFrom(s, sub, i) ==
    IF i + Len(sub) - 1 > Len(s) THEN FALSE
    ELSE IF SubSeq(s, i, i + Len(sub) - 1) = sub THEN TRUE
    ELSE IncludesFrom(s, sub, i + 1)

Includes(s, sub) == IncludesFrom(s, sub, 1)

\* export const enum ResponseType {JSON, FORM_DATA, TEXT, BLOB, ARRAY_BUFFER}:
\* a numeric enum, its members numbered from 0.
JSON == 0
FORM_DATA == 1
TEXT == 2
BLOB == 3
ARRAY_BUFFER == 4

\* The switch entered on a truthy responseType only.
ChooseDecoderWhenTruthy(responseType, contentType) ==
    IF responseType # Null /\ responseType[1] # 0
    THEN CASE responseType[1] = FORM_DATA -> "formData"
           [] responseType[1] = TEXT -> "text"
           [] responseType[1] = BLOB -> "blob"
           [] responseType[1] = ARRAY_BUFFER -> "arrayBuffer"
           [] OTHER -> "none"
    ELSE IF contentType # Null /\ Includes(contentType[1], <<"j", "s", "o", "n">>)
         THEN "json"
         ELSE "text"

\* The body reader: the switch on options?.responseType when it is not
\* null or undefined (the switch has no default: another value leaves
\* dataPromise unassigned, "none"), else json() when the Content-Type header
\* includes "json", else text().
ChooseDecoder(responseType, contentType) ==
    IF responseType # Null
    THEN CASE responseType[1] = JSON -> "json"
           [] responseType[1] = FORM_DATA -> "formData"
           [] responseType[1] = TEXT -> "text"
           [] responseType[1] = BLOB -> "blob"
           [] responseType[1] = ARRAY_BUFFER -> "arrayBuffer"
           [] OTHER -> "none"
    ELSE IF contentType # Null /\ Includes(contentType[1], <<"j", "s", "o", "n">>)
         THEN "json"
         ELSE "text"

\* The upper bound of the status range taken inclusive.
IsSuccessUpTo300(ok, status) == ok /\ status <= 300 /\ status >= 200

\* if (fetchResponse.ok && status < 300 && status >= 200)
IsSuccess(ok, status) == ok /\ status < 300 /\ status >= 200

\* const response = {status, data, headers: fetchResponse.headers}, and the
\* errorResponse literal of the same shape
BuildResponse(resp, data) ==
    [kind |-> "object", status |-> resp.status, data |-> data,
     headers |-> resp.headers]

\* One response or error interceptor applied to the built value.
ApplyObserver(h, value) ==
    CASE h = "throws" ->
           [threw |-> TRUE, error |-> StrValue("interceptorError"), ret |-> NoValue]
      [] h = "replace" ->
           [threw |-> FALSE, error |-> NoValue,
            ret |-> [value EXCEPT !.data = "replaced"]]
      [] OTHER ->
           [threw |-> FALSE, error |-> NoValue, ret |-> NoValue]

\* The loop assigning what the interceptor returns to the chained value.
ChainValueReassigned(current, returned) == returned

\* responseInterceptor(response) / errorInterceptor(errorResponse): the call
\* is a statement, what it returns is dropped.
ChainValue(current, returned) == current

\* for (let responseInterceptor of this.responseInterceptors) { ... } and the
\* same loop over this.errorInterceptors
RECURSIVE FoldObservers(_, _, _, _)
FoldObservers(list, i, value, log) ==
    IF i > Len(list)
    THEN [threw |-> FALSE, error |-> NoValue, value |-> value, log |-> log]
    ELSE LET r == ApplyObserver(list[i], value)
             entry == [h |-> list[i], arg |-> value]
         IN  IF r.threw
             THEN [threw |-> TRUE, error |-> r.error, value |-> value,
                   log |-> Append(log, entry)]
             ELSE FoldObservers(list, i + 1, ChainValue(value, r.ret), Append(log, entry))

\* The error branch iterating the response interceptors.
BranchInterceptorsAlwaysResponse(success) == responseInterceptors

\* The branch iterating the list as it was when execute was called.
BranchInterceptorsAtCallTime(success) ==
    IF success THEN SubSeq(responseInterceptors, 1, listsAtCall[1])
    ELSE SubSeq(errorInterceptors, 1, listsAtCall[2])

\* The list the classified branch iterates: this.responseInterceptors on
\* success, this.errorInterceptors otherwise.
BranchInterceptors(success) ==
    IF success THEN responseInterceptors ELSE errorInterceptors

\* resolve / reject of the promise: only the first settlement counts.
SettledState(kind) == IF handleState = "pending" THEN kind ELSE handleState
\* A promise whose value is overwritten by every later resolve or reject.
SettledValueLastWins(v) == v

SettledValue(v) == IF handleState = "pending" THEN v ELSE handleValue

\* A clearTimeout that is left out.
ClearTimerMissing(t) == t

\* timeoutTimeout && clearTimeout(timeoutTimeout): an armed timer is
\* cancelled; a timer that fired, or none, is left as it is.
ClearTimer(t) == IF t = "armed" THEN "cleared" ELSE t

\* ------------------------------------------------------------ the client

\* constructor(baseUrl, options): options.timeout ?? defaultOptions.timeout,
\* options.paramsSerializer ?? the default, the three lists ?? [].
Construct(base, optTimeout, serializer) ==
    /\ baseUrl = base
    /\ clientTimeout = (IF optTimeout = Null THEN DefaultTimeout ELSE optTimeout[1])
    /\ paramsSerializer = serializer
    /\ requestInterceptors = <<>>
    /\ responseInterceptors = <<>>
    /\ errorInterceptors = <<>>

NoCall ==
    /\ phase = "none"
    /\ args = NoValue
    /\ thrown = NoValue
    /\ reqLog = <<>>
    /\ reqCount = 0
    /\ listsAtCall = <<0, 0>>
    /\ timeout = 0
    /\ timeoutTimeout = "none"
    /\ aborted = FALSE
    /\ abortCalls = 0
    /\ timerAborts = 0
    /\ onCancelList = 0
    /\ isCanceled = FALSE
    /\ cancelAt = "never"
    /\ handleState = "none"
    /\ handleValue = NoValue
    /\ transport = "none"
    /\ transportCalls = 0
    /\ transportArgs = NoValue
    /\ fetchResponse = NoValue
    /\ decoder = "none"
    /\ decode = "none"
    /\ decoded = ""
    /\ fault = NoValue
    /\ chainCount = 0
    /\ respLog = <<>>
    /\ errLog = <<>>

Adds == Len(requestInterceptors) + Len(responseInterceptors) + Len(errorInterceptors)

\* An add that puts the handler at the front of the list.
addRequestInterceptorAtFront(h) ==
    /\ Adds < MaxAdds
    /\ requestInterceptors' = <<h>> \o requestInterceptors
    /\ UNCHANGED <<responseInterceptors, errorInterceptors>>
    /\ UNCHANGED <<clientVars, entryVars, timeoutTimeout, abortVars, cancelVars,
                   handleVars, fetchVars, bodyVars, chainVars>>

\* this.requestInterceptors.push(requestInterceptor)
addRequestInterceptor(h) ==
    /\ Adds < MaxAdds
    /\ requestInterceptors' = Append(requestInterceptors, h)
    /\ UNCHANGED <<responseInterceptors, errorInterceptors>>
    /\ UNCHANGED <<clientVars, entryVars, timeoutTimeout, abortVars, cancelVars,
                   handleVars, fetchVars, bodyVars, chainVars>>

\* this.responseInterceptors.push(responseInterceptor)
addResponseInterceptor(h) ==
    /\ Adds < MaxAdds
    /\ responseInterceptors' = Append(responseInterceptors, h)
    /\ UNCHANGED <<requestInterceptors, errorInterceptors>>
    /\ UNCHANGED <<clientVars, entryVars, timeoutTimeout, abortVars, cancelVars,
                   handleVars, fetchVars, bodyVars, chainVars>>

\* this.errorInterceptors.push(errorInterceptor)
addErrorInterceptor(h) ==
    /\ Adds < MaxAdds
    /\ errorInterceptors' = Append(errorInterceptors, h)
    /\ UNCHANGED <<requestInterceptors, responseInterceptors>>
    /\ UNCHANGED <<clientVars, entryVars, timeoutTimeout, abortVars, cancelVars,
                   handleVars, fetchVars, bodyVars, chainVars>>

\* ------------------------------------------------------------- execute

\* execute(method, url, params, body, options), up to the return of the
\* handle: the headers, the timeout, the URL, the request interceptors, the
\* check of the signal, and the promise's executor (which runs inside the
\* constructor): the timer, the cancel callback, the call of fetch.  A throw
\* of an interceptor leaves execute; a throw inside the executor (request is
\* undefined at request.url) rejects the promise.
execute(method, path, params, body, options) ==
    /\ phase = "none"
    /\ LET a == [method |-> method, path |-> path, params |-> params,
                 body |-> body, options |-> options]
           t == EffectiveTimeout(options.timeout, clientTimeout)
           fold == FoldRequest(requestInterceptors, 1,
                               BuildRequest(baseUrl, paramsSerializer, a), <<>>)
       IN  /\ args' = a
           /\ timeout' = t
           /\ reqLog' = fold.log
           /\ reqCount' = Len(requestInterceptors)
           /\ listsAtCall' = <<Len(responseInterceptors), Len(errorInterceptors)>>
           /\ IF fold.threw \/ aborted
              THEN /\ phase' = "threw"
                   /\ thrown' = (IF fold.threw THEN fold.error ELSE StrValue("canceled"))
                   /\ UNCHANGED <<timeoutTimeout, onCancelList, handleVars, fetchVars>>
              ELSE /\ phase' = "active"
                   /\ thrown' = NoValue
                   /\ timeoutTimeout' = (IF ArmsTimer(t) THEN "armed" ELSE "none")
                   /\ onCancelList' = 1
                   /\ IF fold.request.kind = "undefined"
                      THEN /\ handleState' = "rejected"
                           /\ handleValue' = StrValue("TypeError")
                           /\ UNCHANGED fetchVars
                      ELSE /\ handleState' = "pending"
                           /\ handleValue' = NoValue
                           /\ transport' = "inflight"
                           /\ transportCalls' = transportCalls + 1
                           /\ transportArgs' = TransportCall(fold.request, method)
    /\ UNCHANGED <<clientVars, listVars, abortVars, isCanceled, cancelAt,
                   bodyVars, chainVars>>

\* The timer's callback: abortController.abort(); reject("timeout").
TimerFire ==
    /\ timeoutTimeout = "armed"
    /\ timeoutTimeout' = "fired"
    /\ aborted' = TRUE
    /\ abortCalls' = abortCalls + 1
    /\ timerAborts' = timerAborts + 1
    /\ handleState' = SettledState("rejected")
    /\ handleValue' = SettledValue(StrValue("timeout"))
    /\ UNCHANGED <<clientVars, listVars, entryVars, cancelVars, fetchVars,
                   bodyVars, chainVars>>

\* handle.cancel(): the handle is marked cancelled and runs the callbacks it
\* holds, once: abortController.abort(); timeoutTimeout &&
\* clearTimeout(timeoutTimeout).  The promise itself is not settled by it.
cancel ==
    /\ phase = "active"
    /\ isCanceled' = TRUE
    /\ cancelAt' = (IF cancelAt = "never" THEN handleState ELSE cancelAt)
    /\ onCancelList' = 0
    /\ IF onCancelList > 0
       THEN /\ aborted' = TRUE
            /\ abortCalls' = abortCalls + 1
            /\ timeoutTimeout' = ClearTimer(timeoutTimeout)
       ELSE UNCHANGED <<aborted, abortCalls, timeoutTimeout>>
    /\ UNCHANGED <<clientVars, listVars, entryVars, timerAborts, handleVars,
                   fetchVars, bodyVars, chainVars>>

\* A chain that waits for the body (the callback returning dataPromise's
\* chain), so that fetch's response leaves the timer armed.
TransportRespondAwaitingBody(status, ok, contentType) ==
    /\ transport = "inflight"
    /\ transport' = "responded"
    /\ fetchResponse' = [status |-> status, ok |-> ok,
                         headers |-> [contentType |-> contentType]]
    /\ LET d == ChooseDecoder(args.options.responseType, contentType)
       IN  /\ decoder' = d
           /\ IF d = "none"
              THEN /\ decode' = "none"
                   /\ handleState' = SettledState("rejected")
                   /\ handleValue' = SettledValue(StrValue("TypeError"))
                   /\ timeoutTimeout' = ClearTimer(timeoutTimeout)
              ELSE /\ decode' = "pending"
                   /\ UNCHANGED <<handleVars, timeoutTimeout>>
    /\ UNCHANGED <<transportCalls, transportArgs, decoded, fault>>
    /\ UNCHANGED <<clientVars, listVars, entryVars, abortVars, cancelVars, chainVars>>

\* fetch resolves: the then-callback picks the body reader and starts it;
\* the chain's finally then clears the timer (the callback returns without
\* waiting for the body).  With no reader, dataPromise.then throws and the
\* chain's catch rejects.
TransportRespond(status, ok, contentType) ==
    /\ transport = "inflight"
    /\ transport' = "responded"
    /\ fetchResponse' = [status |-> status, ok |-> ok,
                         headers |-> [contentType |-> contentType]]
    /\ LET d == ChooseDecoder(args.options.responseType, contentType)
       IN  /\ decoder' = d
           /\ IF d = "none"
              THEN /\ decode' = "none"
                   /\ handleState' = SettledState("rejected")
                   /\ handleValue' = SettledValue(StrValue("TypeError"))
              ELSE /\ decode' = "pending"
                   /\ UNCHANGED handleVars
    /\ timeoutTimeout' = ClearTimer(timeoutTimeout)
    /\ UNCHANGED <<transportCalls, transportArgs, decoded, fault>>
    /\ UNCHANGED <<clientVars, listVars, entryVars, abortVars, cancelVars, chainVars>>

\* A fetch that is called again after a network error.
TransportFailRetrying(f) ==
    /\ transport = "inflight"
    /\ f = "AbortError" => aborted
    /\ IF f = "NetworkError" /\ transportCalls < 2
       THEN /\ transport' = "inflight"
            /\ transportCalls' = transportCalls + 1
            /\ UNCHANGED <<fault, handleVars>>
       ELSE /\ transport' = "failed"
            /\ fault' = FaultValue(f)
            /\ handleState' = SettledState("rejected")
            /\ handleValue' = SettledValue(FaultValue(f))
            /\ UNCHANGED transportCalls
    /\ timeoutTimeout' = ClearTimer(timeoutTimeout)
    /\ UNCHANGED transportArgs
    /\ UNCHANGED <<fetchResponse, decoder, decode, decoded>>
    /\ UNCHANGED <<clientVars, listVars, entryVars, abortVars, cancelVars, chainVars>>

\* fetch rejects: .catch(reject), then the finally clears the timer.
TransportFail(f) ==
    /\ transport = "inflight"
    /\ f = "AbortError" => aborted
    /\ transport' = "failed"
    /\ fault' = FaultValue(f)
    /\ handleState' = SettledState("rejected")
    /\ handleValue' = SettledValue(FaultValue(f))
    /\ timeoutTimeout' = ClearTimer(timeoutTimeout)
    /\ UNCHANGED <<transportCalls, transportArgs>>
    /\ UNCHANGED <<fetchResponse, decoder, decode, decoded>>
    /\ UNCHANGED <<clientVars, listVars, entryVars, abortVars, cancelVars, chainVars>>

\* dataPromise resolves: the outcome is classified, the branch's interceptors
\* run, the handle is resolved or rejected.  A throw of an interceptor
\* leaves the callback and reaches .catch(reject).
DecodeDone(data) ==
    /\ decode = "pending"
    /\ decode' = "done"
    /\ LET success == IsSuccess(fetchResponse.ok, fetchResponse.status)
           value == BuildResponse(fetchResponse, data)
           list == BranchInterceptors(success)
           fold == FoldObservers(list, 1, value, <<>>)
       IN  /\ decoded' = data
           /\ chainCount' = Len(list)
           /\ respLog' = (IF success THEN fold.log ELSE respLog)
           /\ errLog' = (IF success THEN errLog ELSE fold.log)
           /\ handleState' = SettledState(IF success /\ ~fold.threw
                                          THEN "resolved" ELSE "rejected")
           /\ handleValue' = SettledValue(IF fold.threw THEN fold.error
                                          ELSE fold.value)
    /\ UNCHANGED <<fetchResponse, decoder, fault>>
    /\ UNCHANGED <<clientVars, listVars, entryVars, timeoutTimeout, abortVars, cancelVars,
                   fetchVars>>

\* A decode fault routed through the error interceptors before the reject.
DecodeFailThroughErrorInterceptors(f) ==
    /\ decode = "pending"
    /\ f = "AbortError" => aborted
    /\ decode' = "failed"
    /\ fault' = FaultValue(f)
    /\ errLog' = FoldObservers(errorInterceptors, 1, FaultValue(f), <<>>).log
    /\ handleState' = SettledState("rejected")
    /\ handleValue' = SettledValue(FaultValue(f))
    /\ UNCHANGED <<fetchResponse, decoder, decoded, chainCount, respLog>>
    /\ UNCHANGED <<clientVars, listVars, entryVars, timeoutTimeout, abortVars, cancelVars,
                   fetchVars>>

\* dataPromise rejects: .catch(reject).
DecodeFail(f) ==
    /\ decode = "pending"
    /\ f = "AbortError" => aborted
    /\ decode' = "failed"
    /\ fault' = FaultValue(f)
    /\ handleState' = SettledState("rejected")
    /\ handleValue' = SettledValue(FaultValue(f))
    /\ UNCHANGED <<fetchResponse, decoder, decoded>>
    /\ UNCHANGED <<clientVars, listVars, entryVars, timeoutTimeout, abortVars, cancelVars,
                   fetchVars, chainVars>>

\* ------------------------------------------------- the specifications

NoOptions == [timeout |-> Null, headers |-> Null, responseType |-> Null]

\* Per-call options the life cycle is explored with.
CallOptions ==
    { [timeout |-> t, headers |-> NoOptions.headers, responseType |-> r] :
        t \in {Null, Some(-1), Some(50)}, r \in {Null} }

\* The method and body of the call (post passes the caller's body on).
Calls == { <<"POST", "payload">> }

\* What the collaborators may do.  fetch is given the signal, and a
\* conforming one rejects with the abort fault once the signal is triggered;
\* the code does not depend on it, so a fetch (or body reader) that responds
\* after the abort, or never settles, is explored too.
Statuses == {199, 200, 299, 300, 404}
ContentTypes == {Null, Some(<<"j", "s", "o", "n">>)}
TransportFaults == {"NetworkError", "AbortError"}
DecodeFaults == {"SyntaxError", "AbortError"}
Bodies == {"d1"}

Init ==
    /\ \E ot \in {Null, Some(0)} : Construct(Some(<<"a", "/">>), ot, "qs")
    /\ NoCall

Next ==
    \/ \E h \in RequestHandlers : addRequestInterceptor(h)
    \/ \E h \in ResponseHandlers : addResponseInterceptor(h)
    \/ \E h \in ErrorHandlers : addErrorInterceptor(h)
    \/ \E c \in Calls, o \in CallOptions : execute(c[1], <<"/", "x">>, <<>>, c[2], o)
    \/ TimerFire
    \/ cancel
    \/ \E st \in Statuses, ok \in BOOLEAN, ct \in ContentTypes :
          TransportRespond(st, ok, ct)
    \/ \E f \in TransportFaults : TransportFail(f)
    \/ \E d \in Bodies : DecodeDone(d)
    \/ \E f \in DecodeFaults : DecodeFail(f)

Spec == Init /\ [][Next]_vars

\* The life cycle with the timer's fairness: an armed timer that is not
\* cleared fires (the event loop runs a due timer).  Explored with the request
\* interceptors only, which decide whether fetch is called at all.
LiveNext ==
    \/ \E h \in RequestHandlers : addRequestInterceptor(h)
    \/ \E c \in Calls, o \in CallOptions : execute(c[1], <<"/", "x">>, <<>>, c[2], o)
    \/ TimerFire
    \/ cancel
    \/ \E st \in {200, 404} : TransportRespond(st, st = 200, Null)
    \/ \E f \in TransportFaults : TransportFail(f)
    \/ \E d \in Bodies : DecodeDone(d)
    \/ \E f \in DecodeFaults : DecodeFail(f)

LiveSpec == Init /\ [][LiveNext]_vars /\ WF_vars(TimerFire)

\* The life cycle with every handler and one response of each branch (200
\* with the flag set, 404 without), for the properties of the order of the
\* steps, which the status enters through its branch only.
StepNext ==
    \/ \E h \in RequestHandlers : addRequestInterceptor(h)
    \/ \E h \in ResponseHandlers : addResponseInterceptor(h)
    \/ \E h \in ErrorHandlers : addErrorInterceptor(h)
    \/ \E c \in Calls, o \in CallOptions : execute(c[1], <<"/", "x">>, <<>>, c[2], o)
    \/ TimerFire
    \/ cancel
    \/ \E st \in {200, 404} : TransportRespond(st, st = 200, Null)
    \/ \E f \in TransportFaults : TransportFail(f)
    \/ \E d \in Bodies : DecodeDone(d)
    \/ \E f \in DecodeFaults : DecodeFail(f)

StepSpec == Init /\ [][StepNext]_vars

\* The URL composition on every base URL (null included) and path of up to
\* MaxUrlLen characters over a letter and the slash, with no parameters and
\* no interceptors, so that fetch gets the composed URL.
UrlStrings == UNION { [1..n -> {"a", "/"}] : n \in 0..MaxUrlLen }

UrlInit ==
    /\ \E b \in {Null} \cup { Some(u) : u \in UrlStrings } : Construct(b, Null, "qs")
    /\ NoCall

UrlNext == \E p \in UrlStrings : execute("GET", p, <<>>, "null", NoOptions)

UrlSpec == UrlInit /\ [][UrlNext]_vars

\* ------------------------------------------------------------ the claims

Timeout == StrValue("timeout")

RejectedWith(v) == handleState = "rejected" /\ handleValue = v

C2_CancelAbortsOnceAndClearsTimer ==
    cancelAt = "pending"
        => /\ aborted
           /\ abortCalls = 1
           /\ timerAborts = 0
           /\ timeoutTimeout \in {"none", "cleared"}
           /\ ~RejectedWith(Timeout)

C2_Witness ==
    /\ cancelAt = "pending"
    /\ timeoutTimeout = "cleared"
    /\ transport = "failed"
    /\ RejectedWith(FaultValue("AbortError"))

\* The request the interceptor chain starts from.
FirstRequest == BuildRequest(baseUrl, paramsSerializer, args)

BuiltValue ==
    [kind |-> "object", status |-> fetchResponse.status, data |-> decoded,
     headers |-> fetchResponse.headers]

\* The transport's flag is set and the status is in [200, 300).
InRange ==
    fetchResponse.ok /\ fetchResponse.status >= 200 /\ fetchResponse.status < 300

\* The body decoded, and neither the timer fired nor the caller cancelled.
Classified == decode = "done" /\ timeoutTimeout # "fired" /\ ~isCanceled

\* The last interceptor the classified branch invoked threw.
ChainThrew ==
    LET log == respLog \o errLog
    IN  log # <<>> /\ log[Len(log)].h = "throws"

\* C4 as claimed: once the body has decoded with no timeout or cancel, the
\* handle is resolved with {status, headers, data} exactly when the flag is
\* set and 200 <= status < 300, and is rejected with that value otherwise.
C4_SettlesByStatus ==
    Classified
        => IF InRange
           THEN handleState = "resolved" /\ handleValue = BuiltValue
           ELSE RejectedWith(BuiltValue)

\* C4 as amended: the same, provided no response or error interceptor of the
\* branch throws; when one throws, the handle is rejected with what it threw.
C4_SettlesByStatusUnlessInterceptorThrows ==
    Classified
        => IF ChainThrew
           THEN RejectedWith(StrValue("interceptorError"))
           ELSE IF InRange
                THEN handleState = "resolved" /\ handleValue = BuiltValue
                ELSE RejectedWith(BuiltValue)

C4_Witness ==
    /\ Classified
    /\ fetchResponse.status = 404
    /\ fetchResponse.ok
    /\ ~ChainThrew
    /\ RejectedWith(BuiltValue)
    /\ handleValue.status = 404
    /\ handleValue.data = "d1"

Faulted == transport = "failed" \/ decode = "failed"

\* C7 as claimed: when fetch or the body reader fails, the handle is
\* rejected with the fault and no response or error interceptor is invoked.
C7_FaultRejectsWithFault ==
    Faulted => RejectedWith(fault) /\ respLog = <<>> /\ errLog = <<>>

\* C7 as amended: when fetch or the body reader fails, no response or error
\* interceptor is invoked and the handle is rejected: with the fault, unless
\* the timer had already rejected it, and then it stays rejected with
\* "timeout".
C7_FaultRejectsBypassingInterceptors ==
    Faulted
        => /\ RejectedWith(IF timeoutTimeout = "fired" THEN Timeout ELSE fault)
           /\ respLog = <<>>
           /\ errLog = <<>>

C7_Witness ==
    /\ decode = "failed"
    /\ errorInterceptors # <<>>
    /\ timeoutTimeout = "cleared"
    /\ RejectedWith(FaultValue("SyntaxError"))
    /\ errLog = <<>>

\* A failure of the call: the timer fired, fetch or the body reader failed,
\* the status was classified an error, or an interceptor threw.
Failed ==
    \/ timeoutTimeout = "fired"
    \/ Faulted
    \/ decode = "done" /\ ~InRange
    \/ ChainThrew
    \/ phase = "threw"

\* C8: execute always returns a handle, and every failure leaves that handle
\* rejected.
C8_EveryFailureRejectsTheHandle ==
    /\ phase # "threw"
    /\ phase = "active" => handleState # "none"
    /\ Failed => handleState = "rejected"

\* C10: a call whose effective timeout is <= 0 arms no timer, and no timer
\* aborts it or rejects its handle with "timeout".
C10_NonPositiveTimeoutDisablesTimer ==
    (phase = "active" /\ timeout <= 0)
        => /\ timeoutTimeout = "none"
           /\ timerAborts = 0
           /\ ~RejectedWith(Timeout)

\* this.baseUrl, null read as the empty string.
BaseString == IF baseUrl = Null THEN <<>> ELSE baseUrl[1]

RECURSIVE WithoutTrailingSlashes(_)
WithoutTrailingSlashes(u) ==
    IF u # <<>> /\ u[Len(u)] = "/"
    THEN WithoutTrailingSlashes(SubSeq(u, 1, Len(u) - 1))
    ELSE u

RECURSIVE WithoutLeadingSlashes(_)
WithoutLeadingSlashes(u) ==
    IF u # <<>> /\ Head(u) = "/" THEN WithoutLeadingSlashes(Tail(u)) ELSE u

\* u with its last character dropped when that is a slash.
WithoutOneTrailingSlash(u) ==
    IF u # <<>> /\ u[Len(u)] = "/" THEN SubSeq(u, 1, Len(u) - 1) ELSE u

\* u with its first character dropped when that is a slash.
WithoutOneLeadingSlash(u) ==
    IF u # <<>> /\ Head(u) = "/" THEN Tail(u) ELSE u

\* C9 as claimed: whatever the number of trailing slashes of the base and of
\* leading slashes of the path, the URL is the base without its trailing
\* slashes, one slash, and the path without its leading slashes: one slash
\* at the join.
C9_OneSlashAtJoin ==
    transportCalls > 0
        => transportArgs.url =
              WithoutTrailingSlashes(BaseString) \o <<"/">>
                 \o WithoutLeadingSlashes(args.path)

\* C9 as amended: the URL is the base without one trailing slash, one slash,
\* and the path without one leading slash; there is exactly one slash at the
\* join when the base ends with at most one slash and the path starts with
\* at most one.
C9_OneSlashStrippedEachSide ==
    transportCalls > 0
        => LET b == WithoutOneTrailingSlash(BaseString)
               p == WithoutOneLeadingSlash(args.path)
           IN  /\ transportArgs.url = b \o <<"/">> \o p
               /\ (b = WithoutTrailingSlashes(BaseString)
                     /\ p = WithoutLeadingSlashes(args.path))
                    => transportArgs.url =
                          WithoutTrailingSlashes(BaseString) \o <<"/">>
                             \o WithoutLeadingSlashes(args.path)

C9_Witness ==
    /\ transportCalls = 1
    /\ baseUrl = Some(<<"a", "/">>)
    /\ args.path = <<"/", "a">>
    /\ transportArgs.url = <<"a", "/", "a">>

\* Every request interceptor registered at call time was invoked and
\* returned a request.
EveryRequestInterceptorReturned ==
    /\ Len(reqLog) = reqCount
    /\ thrown = NoValue
    /\ \A i \in 1..Len(reqLog) : reqLog[i].ret.kind = "request"

\* C11: fetch is called at most once per execute call: in every state from
\* the return of execute on, whatever has happened since (a failure, the
\* timer, a cancel), it has been called exactly once when every request
\* interceptor returned a request, and not at all otherwise.
C11_AtMostOneTransportCall ==
    /\ transportCalls <= 1
    /\ phase = "none" => transportCalls = 0
    /\ phase # "none" =>
          transportCalls = (IF EveryRequestInterceptorReturned THEN 1 ELSE 0)

C11_Witness ==
    /\ phase = "active"
    /\ Len(reqLog) = 2
    /\ EveryRequestInterceptorReturned
    /\ transport = "failed"
    /\ timeoutTimeout = "fired"
    /\ isCanceled
    /\ transportCalls = 1

\* later is earlier with exactly one handler appended at the end.
AppendedOne(earlier, later) ==
    /\ Len(later) = Len(earlier) + 1
    /\ SubSeq(later, 1, Len(earlier)) = earlier

callVars == <<entryVars, timeoutTimeout, abortVars, cancelVars, handleVars,
              fetchVars, bodyVars, chainVars>>

\* C12: a step that changes an interceptor list is an add-*: it appends
\* exactly one handler at the end of one list, keeps that list's earlier
\* entries in their order, and leaves the other two lists and the state of
\* the call as they are; so every step of execute and of the call's later
\* life leaves the three lists unchanged, and each list's earlier content is
\* a prefix of its later content.
C12_AddAppendsOneAndExecuteKeepsLists ==
    [][ listVars' # listVars =>
          /\ \/ /\ AppendedOne(requestInterceptors, requestInterceptors')
                /\ UNCHANGED <<responseInterceptors, errorInterceptors>>
             \/ /\ AppendedOne(responseInterceptors, responseInterceptors')
                /\ UNCHANGED <<requestInterceptors, errorInterceptors>>
             \/ /\ AppendedOne(errorInterceptors, errorInterceptors')
                /\ UNCHANGED <<requestInterceptors, responseInterceptors>>
          /\ UNCHANGED <<clientVars, callVars>> ]_vars

\* The same handler registered twice, kept twice, and still so after an
\* execute call has run to its end.
C12_Witness ==
    /\ requestInterceptors = <<"tagA", "tagA">>
    /\ reqLog = <<>>
    /\ handleState = "resolved"

\* The choice of the body reader on every responseType of the enum (and
\* none) and every Content-Type of up to MaxContentTypeLen characters over
\* the letters of "json" (and none), for a success and an error status.
MaxContentTypeLen == 4

ResponseTypes == {JSON, FORM_DATA, TEXT, BLOB, ARRAY_BUFFER}

ContentTypeStrings == UNION { [1..n -> {"j", "s", "o", "n"}] : n \in 0..MaxContentTypeLen }

DecoderInit ==
    /\ Construct(Some(<<"a">>), Null, "qs")
    /\ NoCall

DecoderNext ==
    \/ \E r \in {Null} \cup { Some(x) : x \in ResponseTypes } :
          execute("GET", <<"x">>, <<>>, "null",
                  [timeout |-> Null, headers |-> Null, responseType |-> r])
    \/ \E st \in {200, 404},
          ct \in {Null} \cup { Some(c) : c \in ContentTypeStrings } :
          TransportRespond(st, st = 200, ct)
    \/ \E d \in Bodies : DecodeDone(d)

DecoderSpec == DecoderInit /\ [][DecoderNext]_vars

\* The Content-Type header is present and "json" occurs in it.
ContainsJson(contentType) ==
    /\ contentType # Null
    /\ \E i \in 1..Len(contentType[1]) :
          /\ i + 3 <= Len(contentType[1])
          /\ contentType[1][i] = "j"
          /\ contentType[1][i + 1] = "s"
          /\ contentType[1][i + 2] = "o"
          /\ contentType[1][i + 3] = "n"

\* The reader each member of the enum names.
NamedDecoder(r) ==
    CASE r = JSON -> "json"
      [] r = FORM_DATA -> "formData"
      [] r = TEXT -> "text"
      [] r = BLOB -> "blob"
      [] r = ARRAY_BUFFER -> "arrayBuffer"

\* C13: once fetch has responded, the body reader chosen is the one named
\* by options.responseType when that is a member of the enum, whatever the
\* Content-Type; otherwise json when the Content-Type header contains
\* "json"; otherwise text, an absent header included.  The status takes no
\* part in the choice.
C13_DecoderChoice ==
    transport = "responded" =>
        LET r == args.options.responseType
            ct == fetchResponse.headers.contentType
        IN  decoder = IF r # Null /\ r[1] \in ResponseTypes THEN NamedDecoder(r[1])
                      ELSE IF ContainsJson(ct) THEN "json"
                      ELSE "text"

\* An error status, responseType JSON, a Content-Type without "json": the
\* body was read as JSON.
C13_Witness ==
    /\ decode = "done"
    /\ fetchResponse.status = 404
    /\ args.options.responseType = Some(JSON)
    /\ fetchResponse.headers.contentType = Some(<<"s", "o", "n">>)
    /\ decoder = "json"

\* The header expansion on every headers object of up to MaxHeaders entries
\* with distinct names (integer-like names among them), each value a string,
\* an empty sequence or a sequence of two strings, and on no headers option.
MaxHeaders == 2

HeaderKeys == { <<"h">>, <<"1">>, <<"2">>, <<"1", "0">>, <<"0", "1">> }

HeaderValues == { [isString |-> TRUE, v |-> <<"a">>],
                  [isString |-> FALSE, v |-> <<>>],
                  [isString |-> FALSE, v |-> <<"a", "b">>] }

HeaderEntries ==
    { [key |-> k, isString |-> x.isString, v |-> x.v] : k \in HeaderKeys, x \in HeaderValues }

HeaderObjects ==
    { o \in UNION { [1..n -> HeaderEntries] : n \in 0..MaxHeaders } :
        \A i, j \in 1..Len(o) : i # j => o[i].key # o[j].key }

HeaderInit ==
    /\ Construct(Some(<<"a">>), Null, "qs")
    /\ NoCall

HeaderNext ==
    \/ \E h \in {"tagA", "tagB"} : addRequestInterceptor(h)
    \/ \E hs \in {Null} \cup { Some(o) : o \in HeaderObjects } :
          execute("GET", <<"x">>, <<>>, "null",
                  [timeout |-> Null, headers |-> hs, responseType |-> Null])

HeaderSpec == HeaderInit /\ [][HeaderNext]_vars

\* The caller's headers object, and the header list built from it: what the
\* first request interceptor was handed, or fetch when there is none.
HeadersObject ==
    IF args.options.headers = Null THEN <<>> ELSE args.options.headers[1]

BuiltHeaders ==
    IF reqLog # <<>> THEN reqLog[1].arg.headers ELSE transportArgs.headers

\* The positions of the built list that carry the name of the caller's i-th entry.
PositionsOf(i) ==
    { k \in 1..Len(BuiltHeaders) : BuiltHeaders[k][1] = HeadersObject[i].key }

\* The built list holds the caller's names only, and under each name the
\* entry's string once, or the sequence's elements in their order.
EachEntryExpanded ==
    /\ \A k \in 1..Len(BuiltHeaders) :
          \E i \in 1..Len(HeadersObject) : k \in PositionsOf(i)
    /\ \A i \in 1..Len(HeadersObject) :
          /\ Cardinality(PositionsOf(i)) = Len(HeadersObject[i].v)
          /\ HeadersObject[i].isString => Cardinality(PositionsOf(i)) = 1
          /\ \A k, l \in PositionsOf(i) :
                LET rank(p) == Cardinality({ q \in PositionsOf(i) : q <= p })
                IN  BuiltHeaders[k][2] = HeadersObject[i].v[rank(k)]

\* The entries of entry i all come before those of entry j.
EntriesBefore(i, j) ==
    \A k \in PositionsOf(i), l \in PositionsOf(j) : k < l

\* C14 as claimed: the built list expands each entry and follows the order
\* in which the caller wrote the entries.
C14_HeadersFollowCallerOrder ==
    phase # "none" =>
        /\ EachEntryExpanded
        /\ \A i, j \in 1..Len(HeadersObject) : i < j => EntriesBefore(i, j)
        /\ args.options.headers = Null => BuiltHeaders = <<>>

\* Entry i is visited before entry j by the loop.
VisitedBefore(i, j) ==
    LET ki == HeadersObject[i].key
        kj == HeadersObject[j].key
    IN  IF IsIntegerIndex(ki)
        THEN IsIntegerIndex(kj) => IndexValue(ki) < IndexValue(kj)
        ELSE ~IsIntegerIndex(kj) /\ i < j

\* C14: the header list handed to the request interceptors and to fetch
\* holds, for each entry of options.headers, one entry for a string value and
\* one entry per element, in element order, for a sequence; the entries whose
\* name is an integer index come first, in ascending numeric order, and the
\* others follow in the caller's order; no headers option gives an empty list.
C14_HeadersFollowEnumerationOrder ==
    phase # "none" =>
        /\ EachEntryExpanded
        /\ \A i, j \in 1..Len(HeadersObject) :
              (i # j /\ VisitedBefore(i, j)) => EntriesBefore(i, j)
        /\ args.options.headers = Null => BuiltHeaders = <<>>

\* {h: ["a", "b"], "1": "a"}: the entry named 1 comes first, then h twice.
C14_Witness ==
    /\ phase = "active"
    /\ HeadersObject = << [key |-> <<"h">>, isString |-> FALSE, v |-> <<"a", "b">>],
                          [key |-> <<"1">>, isString |-> TRUE, v |-> <<"a">>] >>
    /\ transportArgs.headers = << << <<"1">>, "a" >>, << <<"h">>, "a" >>, << <<"h">>, "b" >> >>

\* The query string on every flat parameter mapping of up to MaxParams
\* entries (a string, null, an empty array or an array of two strings under
\* each key), with the default serializer and with one of the caller's.
MaxParams == 2

ParamKeys == { <<"k">>, <<"m">>, <<"n">> }

ParamValues == { [kind |-> "str", v |-> <<"v">>],
                 [kind |-> "null", v |-> <<>>],
                 [kind |-> "array", v |-> <<>>],
                 [kind |-> "array", v |-> << <<"v">>, <<"w">> >>] }

ParamEntries ==
    { [key |-> k, kind |-> x.kind, v |-> x.v] : k \in ParamKeys, x \in ParamValues }

ParamMappings ==
    { p \in UNION { [1..n -> ParamEntries] : n \in 0..MaxParams } :
        \A i, j \in 1..Len(p) : i # j => p[i].key # p[j].key }

QueryInit ==
    /\ \E s \in {"qs", "fixed"} : Construct(Some(<<"a">>), Null, s)
    /\ NoCall

QueryNext ==
    \E p \in ParamMappings, path \in { <<"x">>, <<"/">> } :
        execute("GET", path, p, "null", NoOptions)

QuerySpec == QueryInit /\ [][QueryNext]_vars

\* The serializer's result for the call's params, and the URL before it.
ParamString == Serialize(paramsSerializer, args.params)
JoinedUrl == JoinUrl(baseUrl, args.path)

\* C15: the URL fetch is called with is the joined URL followed by "?" and
\* the serializer's result s when s is not empty, and the joined URL alone,
\* with no "?", when s is empty; the default serializer's result for an
\* empty mapping is empty.
C15_QueryAppendedIffNonEmpty ==
    phase = "active" =>
        /\ SubSeq(transportArgs.url, 1, Len(JoinedUrl)) = JoinedUrl
        /\ ParamString # <<>> =>
              /\ Len(transportArgs.url) = Len(JoinedUrl) + 1 + Len(ParamString)
              /\ transportArgs.url[Len(JoinedUrl) + 1] = "?"
              /\ SubSeq(transportArgs.url, Len(JoinedUrl) + 2, Len(transportArgs.url))
                    = ParamString
        /\ ParamString = <<>> => transportArgs.url = JoinedUrl
        /\ (paramsSerializer = "qs" /\ args.params = <<>>) =>
              /\ ParamString = <<>>
              /\ \A i \in 1..Len(transportArgs.url) : transportArgs.url[i] # "?"

\* A mapping whose only value is null: the default serializer skips it,
\* and nothing is appended.
C15_Witness ==
    /\ phase = "active"
    /\ paramsSerializer = "qs"
    /\ args.params = << [key |-> <<"k">>, kind |-> "null", v |-> <<>>] >>
    /\ transportArgs.url = <<"a", "/", "x">>

\* The handle has settled.
Settled == handleState \in {"resolved", "rejected"}

\* C16: once the handle has settled or been cancelled the timeout timer is
\* not armed, and the timer fires only while the handle is pending and not
\* cancelled.
C16_NoTimerLeak ==
    /\ []((Settled \/ isCanceled) => timeoutTimeout # "armed")
    /\ [][(timeoutTimeout # "fired" /\ timeoutTimeout' = "fired")
            => (handleState = "pending" /\ ~isCanceled)]_vars

C18_NoInterceptorAfterAbort ==
    [][aborted => (respLog' = respLog /\ errLog' = errLog)]_vars

\* C19: once fetch has settled (a response or a fault) the timer is not
\* armed; from the response on the timer does not fire and the handle does
\* not become rejected with "timeout"; and while the body reader has not
\* completed and the caller has not cancelled, no step settles the handle.
C19_TimeoutRacesOnlyTransport ==
    /\ [](transport \in {"responded", "failed"} => timeoutTimeout # "armed")
    /\ [][transport = "responded" =>
            /\ timeoutTimeout' = timeoutTimeout
            /\ RejectedWith(Timeout)' => RejectedWith(Timeout)]_vars
    /\ [][(decode = "pending" /\ decode' = "pending" /\ ~isCanceled')
            => handleState' = handleState]_vars

\* A call with timeout 0 whose response arrived before the timer ran: the
\* timer is cleared, the body is still being read, the handle is pending.
C19_Witness ==
    /\ timeout = 0
    /\ transport = "responded"
    /\ decode = "pending"
    /\ timeoutTimeout = "cleared"
    /\ handleState = "pending"
    /\ ~isCanceled

\* The handlers a log names, in order.
Handlers(log) == [i \in 1..Len(log) |-> log[i].h]

\* The list up to and including its first throwing handler.
UpToFirstThrow(list) ==
    IF \E i \in 1..Len(list) : list[i] = "throws"
    THEN SubSeq(list, 1, CHOOSE i \in 1..Len(list) :
                             /\ list[i] = "throws"
                             /\ \A j \in 1..(i - 1) : list[j] # "throws")
    ELSE list

\* The step in which the outcome is classified.
Classifying == decode = "pending" /\ decode' = "done"

\* No step after execute applies a request interceptor or changes what
\* fetch was called with.
RequestSideFixedAtCall ==
    /\ [](phase # "none" => Len(reqLog) <= reqCount)
    /\ [][phase # "none" => (reqLog' = reqLog /\ transportArgs' = transportArgs)]_vars

\* C20 as claimed: no request interceptor added after execute returned is
\* applied to the call, and every response (error) interceptor registered
\* when the outcome is classified as a success (an error) is invoked.
C20_LateResponseInterceptorsInvoked ==
    /\ RequestSideFixedAtCall
    /\ [][Classifying =>
            IF InRange
            THEN Handlers(respLog') = responseInterceptors /\ errLog' = errLog
            ELSE Handlers(errLog') = errorInterceptors /\ respLog' = respLog]_vars

\* C20: no request interceptor added after execute returned is applied to
\* the call; when the outcome is classified, the interceptors invoked are
\* those of the branch's list as it is at that moment, additions made during
\* the flight included, in order, up to the first one that throws.
C20_ListsReadWhenUsed ==
    /\ RequestSideFixedAtCall
    /\ [][Classifying =>
            IF InRange
            THEN /\ Handlers(respLog') = UpToFirstThrow(responseInterceptors)
                 /\ errLog' = errLog
            ELSE /\ Handlers(errLog') = UpToFirstThrow(errorInterceptors)
                 /\ respLog' = respLog]_vars

\* Both lists were empty when execute was called; the request interceptor
\* added since was not applied, the response interceptor added since was.
C20_Witness ==
    /\ phase = "active"
    /\ reqCount = 0
    /\ listsAtCall = <<0, 0>>
    /\ requestInterceptors = <<"tagA">>
    /\ reqLog = <<>>
    /\ transportArgs.headers = <<>>
    /\ responseInterceptors = <<"observe">>
    /\ Handlers(respLog) = <<"observe">>
    /\ handleState = "resolved"

====
